---- MODULE Spec2Model ----
(***************************************************************************)
(* BB84 key exchange demo (qkd_demo.py): main() and its helpers            *)
(* xor_bits, string_to_bits, bits_to_string, bb84_circuit.                 *)
(*                                                                         *)
(* A string is the sequence of its code points; a bit sequence is a        *)
(* sequence over {0, 1}.  Python indexes from 0 and TLA+ from 1: index i   *)
(* of the code is position i + 1 here, and good_bits keeps the code's      *)
(* 0-based values.                                                         *)
(*                                                                         *)
(* The circuit simulator is the cirq library.  A circuit is kept as the    *)
(* gate list of each qubit, and a run of it with repetitions = 1 (the      *)
(* default of main and the value of the call at line 206) yields one bit   *)
(* per qubit: the bit the gates determine, or either bit when the qubit    *)
(* is measured in a superposition.                                         *)
(***************************************************************************)
EXTENDS Integers, Sequences, FiniteSets, TLC

VARIABLES
    pc,         \* position of main
    arg_msg,    \* main's argument msg as passed (msg is rebound at line 144)
    msg, key_size, eve,
    bit_msg, a_bits, a_basis, b_basis, e_basis, eve_bits, circuit,
    b_bits, good_bits, a_key, b_key, encrypted, decrypted,
    out,        \* console: the kinds of the lines printed so far
    fault,      \* the exception that ended main, or "none"
    calls,      \* history of bb84_circuit calls and simulator runs
    h_pc,       \* position of a direct call of xor_bits or of the codec
    bits, key,  \* xor_bits: its arguments
    xor1, xor2, \* xor_bits(bits, key) and xor_bits(xor1.val, key)
    string,     \* string_to_bits: its argument
    result,     \* string_to_bits(string)
    chars       \* bits_to_string(result)

mainVars == <<pc, arg_msg, msg, key_size, eve, bit_msg, a_bits, a_basis, b_basis,
              e_basis, eve_bits, circuit, b_bits, good_bits, a_key, b_key,
              encrypted, decrypted, out, fault, calls>>
callVars == <<h_pc, bits, key, xor1, xor2, string, result, chars>>
vars == <<mainVars, callVars>>

----------------------------------------------------------------------------
(* Bounds *)

\* key_size is drawn from 1..MaxKeySize with every bit/basis sequence
MaxKeySize == 2
\* one longer key_size, with a sample of the sequences (see Draws)
LongKeySize == 9
\* direct calls of xor_bits: lengths of bits and key
MaxBits == 4
MaxKeyLen == 3
\* direct calls of the codec: length of the string
MaxStrLen == 2
\* direct calls of the codec: every single character up to this code point
MaxCodePoint == 300

Bit == {0, 1}

BitSeqs(n) == [1..n -> Bit]

BitSeqsUpTo(n) == UNION {BitSeqs(k) : k \in 0..n}

\* "", "H", "Hi", and a message with a character above 255
Messages == {<<>>, <<72>>, <<72, 105>>, <<256>>}

KeySizes == (1..MaxKeySize) \cup {LongKeySize}

\* The outcomes of randint(2, size=n) that are explored: all of them up to
\* MaxKeySize; for a longer n, the sequences 0,1,0,1,... with either last entry.
Draws(n) ==
    IF n <= MaxKeySize THEN BitSeqs(n)
    ELSE {[i \in 1..n |-> IF i = n THEN d ELSE (i - 1) % 2] : d \in Bit}

----------------------------------------------------------------------------
(* xor_bits *)

Xor(a, b) == (a + b) % 2

\* xor_bits with | written for ^
xor_bits_or(bs, k) ==
    IF Len(bs) > 0 /\ Len(k) = 0
    THEN [exc |-> "ZeroDivisionError", val |-> <<>>]
    ELSE [exc |-> "none",
          val |-> [i \in 1..Len(bs) |->
                      IF bs[i] = 1 \/ k[((i - 1) % Len(k)) + 1] = 1 THEN 1 ELSE 0]]

\* xor_bits(bits, key): key[i % len(key)] raises ZeroDivisionError at i = 0
\* when key is empty and bits is not.
xor_bits(bs, k) ==
    IF Len(bs) > 0 /\ Len(k) = 0
    THEN [exc |-> "ZeroDivisionError", val |-> <<>>]
    ELSE [exc |-> "none",
          val |-> [i \in 1..Len(bs) |-> Xor(bs[i], k[((i - 1) % Len(k)) + 1])]]

----------------------------------------------------------------------------
(* Text codec *)

\* bin(n)[2:] : the binary digits of n, most significant first, no padding
RECURSIVE bin(_)
bin(n) == IF n < 2 THEN <<IF n = 1 THEN "1" ELSE "0">>
          ELSE bin(n \div 2) \o <<IF n % 2 = 1 THEN "1" ELSE "0">>

\* string_to_bits without the zero padding of line 161
pad8_unpadded(digits) == digits

\* '00000000'[len(bits):] + bits : nothing is prepended once len(bits) >= 8
pad8(digits) ==
    [i \in 1..(IF Len(digits) < 8 THEN 8 - Len(digits) ELSE 0) |-> "0"] \o digits

\* int(b) for a digit character
int(b) == IF b = "1" THEN 1 ELSE 0

\* str(bit)
str(bit) == IF bit = 1 THEN "1" ELSE "0"

RECURSIVE string_to_bits(_)
string_to_bits(s) ==
    IF s = <<>> THEN <<>>
    ELSE LET digits == pad8(bin(Head(s)))
         IN  [i \in 1..Len(digits) |-> int(digits[i])] \o string_to_bits(Tail(s))

\* int(text, 2)
RECURSIVE int2(_)
int2(digits) ==
    IF digits = <<>> THEN 0
    ELSE 2 * int2(SubSeq(digits, 1, Len(digits) - 1)) + int(digits[Len(digits)])

\* bits_to_string(bits): int(len(bits) / 8) groups of 8, a trailing rest dropped
bits_to_string(bs) ==
    [b \in 1..(Len(bs) \div 8) |->
        LET byte == SubSeq(bs, (b - 1) * 8 + 1, b * 8)
        IN  int2([j \in 1..Len(byte) |-> str(byte[j])])]

----------------------------------------------------------------------------
(* Circuits *)

build_b92_encoder(bs, basis) ==
    [i \in 1..Len(bs) |->
        (IF bs[i] = 1 THEN <<"X">> ELSE <<>>) \o (IF basis[i] = 1 THEN <<"H">> ELSE <<>>)]

\* build_b92_measurement without the basis change of lines 194-195
build_b92_measurement_no_basis(circ, basis) ==
    [i \in 1..Len(circ) |-> circ[i] \o <<"M">>]

build_b92_measurement(circ, basis) ==
    [i \in 1..Len(circ) |->
        circ[i] \o (IF basis[i] = 1 THEN <<"H">> ELSE <<>>) \o <<"M">>]

bb84_circuit(bs, sender_basis, receiver_basis) ==
    build_b92_measurement(build_b92_encoder(bs, sender_basis), receiver_basis)

\* One-qubit states the gates X and H reach from |0>: 0, 1, + and -
ApplyGate(g, q) ==
    CASE g = "X" -> (CASE q = "0" -> "1" [] q = "1" -> "0" [] OTHER -> q)
      [] g = "H" -> (CASE q = "0" -> "+" [] q = "1" -> "-"
                       [] q = "+" -> "0" [] OTHER -> "1")
      [] OTHER -> q

RECURSIVE StateAfter(_, _)
StateAfter(gates, q) ==
    IF gates = <<>> \/ Head(gates) = "M" THEN q
    ELSE StateAfter(Tail(gates), ApplyGate(Head(gates), q))

\* The bits a measurement of one qubit can give
Outcomes(gates) ==
    LET q == StateAfter(gates, "0")
    IN  CASE q = "0" -> {0} [] q = "1" -> {1} [] OTHER -> {0, 1}

\* cirq.Simulator().run(circuit, repetitions=1) read back as one int per qubit
Simulate(circ) ==
    {m \in BitSeqs(Len(circ)) : \A i \in 1..Len(circ) : m[i] \in Outcomes(circ[i])}

BuildCall(bs, sb, rb) ==
    [op |-> "bb84_circuit", circuit |-> bb84_circuit(bs, sb, rb),
     bits |-> bs, a_basis |-> sb, b_basis |-> rb]

RunCall(circ, m) ==
    [op |-> "run", circuit |-> circ, bits |-> m, a_basis |-> <<>>, b_basis |-> <<>>]

----------------------------------------------------------------------------
(* main *)

MainIdle ==
    /\ pc = "idle" /\ arg_msg = <<>> /\ msg = <<>> /\ key_size = 0 /\ eve = FALSE
    /\ bit_msg = <<>> /\ a_bits = <<>> /\ a_basis = <<>> /\ b_basis = <<>>
    /\ e_basis = <<>> /\ eve_bits = <<>> /\ circuit = <<>> /\ b_bits = <<>>
    /\ good_bits = <<>> /\ a_key = <<>> /\ b_key = <<>> /\ encrypted = <<>>
    /\ decrypted = <<>> /\ out = <<>> /\ fault = "none" /\ calls = <<>>

CallIdle ==
    /\ h_pc = "idle" /\ bits = <<>> /\ key = <<>>
    /\ xor1 = [exc |-> "none", val |-> <<>>] /\ xor2 = [exc |-> "none", val |-> <<>>]
    /\ string = <<>> /\ result = <<>> /\ chars = <<>>

\* main(msg, key_size, eve) is entered
Init ==
    /\ pc = "start"
    /\ arg_msg \in Messages /\ msg = arg_msg
    /\ key_size \in KeySizes
    /\ eve \in BOOLEAN
    /\ bit_msg = <<>> /\ a_bits = <<>> /\ a_basis = <<>> /\ b_basis = <<>>
    /\ e_basis = <<>> /\ eve_bits = <<>> /\ circuit = <<>> /\ b_bits = <<>>
    /\ good_bits = <<>> /\ a_key = <<>> /\ b_key = <<>> /\ encrypted = <<>>
    /\ decrypted = <<>> /\ out = <<>> /\ fault = "none" /\ calls = <<>>
    /\ CallIdle

\* lines 93-97
Encode ==
    /\ pc = "start"
    /\ bit_msg' = string_to_bits(msg)
    /\ out' = out \o <<"Input Message", "Bit Message", "Initiating Quantum Key Exchange">>
    /\ pc' = "generate"
    /\ UNCHANGED <<arg_msg, msg, key_size, eve, a_bits, a_basis, b_basis, e_basis,
                   eve_bits, circuit, b_bits, good_bits, a_key, b_key, encrypted,
                   decrypted, fault, calls>>
    /\ UNCHANGED callVars

\* lines 99-101
Generate ==
    /\ pc = "generate"
    /\ a_bits' \in Draws(key_size)
    /\ a_basis' \in Draws(key_size)
    /\ b_basis' \in Draws(key_size)
    /\ pc' = "channel"
    /\ UNCHANGED <<arg_msg, msg, key_size, eve, bit_msg, e_basis, eve_bits, circuit,
                   b_bits, good_bits, a_key, b_key, encrypted, decrypted, out, fault,
                   calls>>
    /\ UNCHANGED callVars

\* lines 103-107: Eve's bases, and the circuit from Alice to Eve
EveIntercept ==
    /\ pc = "channel" /\ eve
    /\ \E e \in Draws(key_size) :
          /\ e_basis' = e
          /\ circuit' = bb84_circuit(a_bits, a_basis, e)
          /\ calls' = Append(calls, BuildCall(a_bits, a_basis, e))
    /\ out' = Append(out, "Circuit 1/2")
    /\ pc' = "eve_run"
    /\ UNCHANGED <<arg_msg, msg, key_size, eve, bit_msg, a_bits, a_basis, b_basis,
                   eve_bits, b_bits, good_bits, a_key, b_key, encrypted, decrypted,
                   fault>>
    /\ UNCHANGED callVars

\* lines 108-109: Eve measures
EveMeasure ==
    /\ pc = "eve_run"
    /\ \E m \in Simulate(circuit) :
          /\ eve_bits' = m
          /\ calls' = Append(calls, RunCall(circuit, m))
    /\ pc' = "eve_resend"
    /\ UNCHANGED <<arg_msg, msg, key_size, eve, bit_msg, a_bits, a_basis, b_basis,
                   e_basis, circuit, b_bits, good_bits, a_key, b_key, encrypted,
                   decrypted, out, fault>>
    /\ UNCHANGED callVars

\* line 110 passing a_bits where it passes eve_bits
EveResend_original_bits ==
    /\ pc = "eve_resend"
    /\ circuit' = bb84_circuit(a_bits, e_basis, b_basis)
    /\ calls' = Append(calls, BuildCall(a_bits, e_basis, b_basis))
    /\ out' = Append(out, "Circuit 2/2")
    /\ pc' = "bob_run"
    /\ UNCHANGED <<arg_msg, msg, key_size, eve, bit_msg, a_bits, a_basis, b_basis,
                   e_basis, eve_bits, b_bits, good_bits, a_key, b_key, encrypted,
                   decrypted, fault>>
    /\ UNCHANGED callVars

\* lines 110-112: the circuit from Eve to Bob
EveResend ==
    /\ pc = "eve_resend"
    /\ circuit' = bb84_circuit(eve_bits, e_basis, b_basis)
    /\ calls' = Append(calls, BuildCall(eve_bits, e_basis, b_basis))
    /\ out' = Append(out, "Circuit 2/2")
    /\ pc' = "bob_run"
    /\ UNCHANGED <<arg_msg, msg, key_size, eve, bit_msg, a_bits, a_basis, b_basis,
                   e_basis, eve_bits, b_bits, good_bits, a_key, b_key, encrypted,
                   decrypted, fault>>
    /\ UNCHANGED callVars

\* lines 114-117: the circuit from Alice to Bob
Direct ==
    /\ pc = "channel" /\ ~eve
    /\ circuit' = bb84_circuit(a_bits, a_basis, b_basis)
    /\ calls' = Append(calls, BuildCall(a_bits, a_basis, b_basis))
    /\ out' = Append(out, "Circuit")
    /\ pc' = "bob_run"
    /\ UNCHANGED <<arg_msg, msg, key_size, eve, bit_msg, a_bits, a_basis, b_basis,
                   e_basis, eve_bits, b_bits, good_bits, a_key, b_key, encrypted,
                   decrypted, fault>>
    /\ UNCHANGED callVars

\* lines 119-122: Bob measures
BobMeasure ==
    /\ pc = "bob_run"
    /\ \E m \in Simulate(circuit) :
          /\ b_bits' = m
          /\ calls' = Append(calls, RunCall(circuit, m))
    /\ out' = Append(out, "Quantum Key Exchange complete")
    /\ pc' = "sift"
    /\ UNCHANGED <<arg_msg, msg, key_size, eve, bit_msg, a_bits, a_basis, b_basis,
                   e_basis, eve_bits, circuit, good_bits, a_key, b_key, encrypted,
                   decrypted, fault>>
    /\ UNCHANGED callVars

Contains(seq, x) == \E j \in 1..Len(seq) : seq[j] = x

\* [i for i in range(len(a_basis)) if not (a_basis[i]^b_basis[i])], from index i on
RECURSIVE GoodBitsFrom(_, _, _)
GoodBitsFrom(i, ab, bb) ==
    IF i >= Len(ab) THEN <<>>
    ELSE (IF Xor(ab[i + 1], bb[i + 1]) = 0 THEN <<i>> ELSE <<>>)
         \o GoodBitsFrom(i + 1, ab, bb)

\* line 124 without its "not": the positions at which the bases differ
GoodBits_differing(ab, bb) ==
    SelectSeq([i \in 1..Len(ab) |-> i - 1], LAMBDA i : Xor(ab[i + 1], bb[i + 1]) = 1)

\* line 124
GoodBits(ab, bb) == GoodBitsFrom(0, ab, bb)

\* [bits[i] for i in range(len(basis)) if i in good_bits], from index i on
RECURSIVE SiftKeyFrom(_, _, _, _)
SiftKeyFrom(i, bs, basis, good) ==
    IF i >= Len(basis) THEN <<>>
    ELSE (IF Contains(good, i) THEN <<bs[i + 1]>> ELSE <<>>)
         \o SiftKeyFrom(i + 1, bs, basis, good)

\* lines 126-127
SiftKey(bs, basis, good) == SiftKeyFrom(0, bs, basis, good)

\* lines 124-127
Sift ==
    /\ pc = "sift"
    /\ good_bits' = GoodBits(a_basis, b_basis)
    /\ a_key' = SiftKey(a_bits, a_basis, good_bits')
    /\ b_key' = SiftKey(b_bits, b_basis, good_bits')
    /\ pc' = "compare"
    /\ UNCHANGED <<arg_msg, msg, key_size, eve, bit_msg, a_bits, a_basis, b_basis,
                   e_basis, eve_bits, circuit, b_bits, encrypted, decrypted, out,
                   fault, calls>>
    /\ UNCHANGED callVars

\* line 129 comparing the lengths of the keys only
KeysMatch_length(ak, bk) == Len(ak) = Len(bk)

\* line 129
KeysMatch(ak, bk) == ak = bk

\* lines 129-132
Compare ==
    /\ pc = "compare"
    /\ out' = Append(out, IF KeysMatch(a_key, b_key) THEN "No interference detected!"
                          ELSE "Interference detected!")
    /\ pc' = "encrypt"
    /\ UNCHANGED <<arg_msg, msg, key_size, eve, bit_msg, a_bits, a_basis, b_basis,
                   e_basis, eve_bits, circuit, b_bits, good_bits, a_key, b_key,
                   encrypted, decrypted, fault, calls>>
    /\ UNCHANGED callVars

\* lines 137-138
Encrypt ==
    /\ pc = "encrypt"
    /\ LET r == xor_bits(bit_msg, a_key)
       IN  IF r.exc = "none"
           THEN /\ encrypted' = r.val
                /\ out' = Append(out, "Alice's encrypted bits")
                /\ pc' = "decrypt"
                /\ UNCHANGED fault
           ELSE /\ fault' = r.exc
                /\ pc' = "crashed"
                /\ UNCHANGED <<encrypted, out>>
    /\ UNCHANGED <<arg_msg, msg, key_size, eve, bit_msg, a_bits, a_basis, b_basis,
                   e_basis, eve_bits, circuit, b_bits, good_bits, a_key, b_key,
                   decrypted, calls>>
    /\ UNCHANGED callVars

\* line 141 decrypting with a_key where it decrypts with b_key
Decrypt_with_a_key ==
    /\ pc = "decrypt"
    /\ LET r == xor_bits(encrypted, a_key)
       IN  IF r.exc = "none"
           THEN /\ decrypted' = r.val
                /\ out' = Append(out, "Bob's decrypted bits")
                /\ pc' = "decode"
                /\ UNCHANGED fault
           ELSE /\ fault' = r.exc
                /\ pc' = "crashed"
                /\ UNCHANGED <<decrypted, out>>
    /\ UNCHANGED <<arg_msg, msg, key_size, eve, bit_msg, a_bits, a_basis, b_basis,
                   e_basis, eve_bits, circuit, b_bits, good_bits, a_key, b_key,
                   encrypted, calls>>
    /\ UNCHANGED callVars

\* lines 141-142
Decrypt ==
    /\ pc = "decrypt"
    /\ LET r == xor_bits(encrypted, b_key)
       IN  IF r.exc = "none"
           THEN /\ decrypted' = r.val
                /\ out' = Append(out, "Bob's decrypted bits")
                /\ pc' = "decode"
                /\ UNCHANGED fault
           ELSE /\ fault' = r.exc
                /\ pc' = "crashed"
                /\ UNCHANGED <<decrypted, out>>
    /\ UNCHANGED <<arg_msg, msg, key_size, eve, bit_msg, a_bits, a_basis, b_basis,
                   e_basis, eve_bits, circuit, b_bits, good_bits, a_key, b_key,
                   encrypted, calls>>
    /\ UNCHANGED callVars

\* lines 144-145
Decode ==
    /\ pc = "decode"
    /\ msg' = bits_to_string(decrypted)
    /\ out' = Append(out, "Bob's Received Message")
    /\ pc' = "done"
    /\ UNCHANGED <<arg_msg, key_size, eve, bit_msg, a_bits, a_basis, b_basis,
                   e_basis, eve_bits, circuit, b_bits, good_bits, a_key, b_key,
                   encrypted, decrypted, fault, calls>>
    /\ UNCHANGED callVars

Next ==
    \/ Encode
    \/ Generate
    \/ EveIntercept
    \/ EveMeasure
    \/ EveResend
    \/ Direct
    \/ BobMeasure
    \/ Sift
    \/ Compare
    \/ Encrypt
    \/ Decrypt
    \/ Decode

Spec == Init /\ [][Next]_vars

----------------------------------------------------------------------------
(* Direct calls of xor_bits: xor_bits(xor_bits(bits, key), key) *)

InitXor ==
    /\ MainIdle
    /\ h_pc = "xor"
    /\ bits \in BitSeqsUpTo(MaxBits)
    /\ key \in BitSeqsUpTo(MaxKeyLen)
    /\ xor1 = [exc |-> "none", val |-> <<>>] /\ xor2 = [exc |-> "none", val |-> <<>>]
    /\ string = <<>> /\ result = <<>> /\ chars = <<>>

XorOnce ==
    /\ h_pc = "xor"
    /\ xor1' = xor_bits(bits, key)
    /\ h_pc' = IF xor1'.exc = "none" THEN "xor_again" ELSE "xor_raised"
    /\ UNCHANGED <<bits, key, xor2, string, result, chars>>
    /\ UNCHANGED mainVars

XorTwice ==
    /\ h_pc = "xor_again"
    /\ xor2' = xor_bits(xor1.val, key)
    /\ h_pc' = IF xor2'.exc = "none" THEN "xor_done" ELSE "xor_raised"
    /\ UNCHANGED <<bits, key, xor1, string, result, chars>>
    /\ UNCHANGED mainVars

NextXor ==
    \/ XorOnce
    \/ XorTwice

SpecXor == InitXor /\ [][NextXor]_vars

----------------------------------------------------------------------------
(* Direct calls of the codec: bits_to_string(string_to_bits(string)) *)

SampleChars == {0, 1, 65, 127, 128, 255, 256}

StringsOver(S, n) == UNION {[1..k -> S] : k \in 0..n}

Strings == StringsOver(SampleChars, MaxStrLen) \cup {<<c>> : c \in 0..MaxCodePoint}

InitCodec ==
    /\ MainIdle
    /\ h_pc = "encode"
    /\ string \in Strings
    /\ result = <<>> /\ chars = <<>>
    /\ bits = <<>> /\ key = <<>>
    /\ xor1 = [exc |-> "none", val |-> <<>>] /\ xor2 = [exc |-> "none", val |-> <<>>]

EncodeString ==
    /\ h_pc = "encode"
    /\ result' = string_to_bits(string)
    /\ h_pc' = "decode"
    /\ UNCHANGED <<bits, key, xor1, xor2, string, chars>>
    /\ UNCHANGED mainVars

DecodeBits ==
    /\ h_pc = "decode"
    /\ chars' = bits_to_string(result)
    /\ h_pc' = "codec_done"
    /\ UNCHANGED <<bits, key, xor1, xor2, string, result>>
    /\ UNCHANGED mainVars

NextCodec ==
    \/ EncodeString
    \/ DecodeBits

SpecCodec == InitCodec /\ [][NextCodec]_vars

----------------------------------------------------------------------------
(* Properties *)

Terminal == pc \in {"done", "crashed"}

\* main has executed the sifting of lines 124-127
Sifted == pc \in {"compare", "encrypt", "decrypt", "decode", "done", "crashed"}

\* main has executed the comparison of lines 129-132
Compared == pc \in {"encrypt", "decrypt", "decode", "done", "crashed"}

\* Bob's measurement of line 119 has been taken
Measured == pc = "sift" \/ Sifted

Printable(s) == \A i \in 1..Len(s) : s[i] \in 32..126

\* the code's 0-based indices at which the two bases agree
Agreeing == {i \in 0..(Len(a_basis) - 1) : a_basis[i + 1] = b_basis[i + 1]}

Min(a, b) == IF a < b THEN a ELSE b

LastOut(n) == SubSeq(out, Len(out) - n + 1, Len(out))

\* C1: without an eavesdropper, for every printable message, every key_size
\* and every draw of a_bits, a_basis and b_basis, main ends with
\* a_key = b_key, the "No interference detected!" notice printed and Bob's
\* decoded message equal to the message passed in.
C1_NoEveDeliversMessage ==
    (Terminal /\ ~eve /\ Printable(arg_msg)) =>
        /\ pc = "done"
        /\ a_key = b_key
        /\ Contains(out, "No interference detected!")
        /\ msg = arg_msg

\* C2: when the bases differ at every position and the message is not
\* empty, the run ends in the explicit "no shared key established" error
\* and never in the ZeroDivisionError of xor_bits.
C2_EmptyKeyIsReported ==
    (Terminal /\ Agreeing = {} /\ arg_msg # <<>>) =>
        /\ fault = "no shared key established"
        /\ fault # "ZeroDivisionError"

\* C3: for every bit sequence and every non-empty key, xor_bits returns a
\* sequence as long as its input, and applying it twice with the same key
\* gives the input back.
C3_XorInvolution ==
    /\ (h_pc \in {"xor_again", "xor_done", "xor_raised"} /\ key # <<>>) =>
          /\ xor1.exc = "none"
          /\ Len(xor1.val) = Len(bits)
    /\ (h_pc \in {"xor_done", "xor_raised"} /\ key # <<>>) =>
          /\ xor2.exc = "none"
          /\ xor2.val = bits

\* a call whose bits are longer than the key and no multiple of its length
C3_Witness ==
    /\ h_pc = "xor_done"
    /\ Len(key) = 3 /\ Len(bits) = 4
    /\ xor1.val # bits
    /\ xor2.val = bits

\* C4: for every string of code points 0..255, string_to_bits gives
\* 8 * len(s) bits and bits_to_string gives the string back.
C4_CodecRoundTrip ==
    (\A i \in 1..Len(string) : string[i] <= 255) =>
        /\ (h_pc \in {"decode", "codec_done"} => Len(result) = 8 * Len(string))
        /\ (h_pc = "codec_done" => chars = string)

\* a decoded two-character string whose first character has a one-digit
\* binary form
C4_Witness ==
    /\ h_pc = "codec_done"
    /\ string = <<1, 255>>
    /\ chars = string

\* C5: sifting selects exactly the positions at which a_basis and b_basis
\* agree; a_key and b_key are a_bits and b_bits at those positions in
\* increasing order, so both have as many entries as there are agreeing
\* positions.
C5_SiftSelectsAgreeingPositions ==
    Sifted =>
        /\ Len(good_bits) = Cardinality(Agreeing)
        /\ {good_bits[j] : j \in 1..Len(good_bits)} = Agreeing
        /\ \A j \in 1..(Len(good_bits) - 1) : good_bits[j] < good_bits[j + 1]
        /\ Len(a_key) = Cardinality(Agreeing)
        /\ Len(b_key) = Cardinality(Agreeing)
        /\ \A j \in 1..Len(good_bits) :
              /\ a_key[j] = a_bits[good_bits[j] + 1]
              /\ b_key[j] = b_bits[good_bits[j] + 1]

\* a sifting that drops the first position and keeps the second
C5_Witness ==
    /\ Sifted
    /\ key_size = 2
    /\ good_bits = <<1>>
    /\ a_key = <<a_bits[2]>>

\* C6: a message with a character above code point 255 is rejected when it
\* is encoded: string_to_bits ends in an error and yields no bits.
C6_WideCharacterRejected ==
    (pc \notin {"idle", "start"} /\ \E i \in 1..Len(arg_msg) : arg_msg[i] > 255) =>
        /\ fault = "unsupported character"
        /\ bit_msg = <<>>

\* C7: the "No interference detected!" notice is printed exactly when
\* a_key = b_key; when the keys differ the warning is printed and main goes
\* on, in this order, to encrypt with a_key, decrypt with b_key and print
\* Bob's message: a key mismatch never ends the run.
C7_WarnAndProceed ==
    /\ Compared =>
          /\ Contains(out, "No interference detected!") <=> (a_key = b_key)
          /\ Contains(out, "Interference detected!") <=> (a_key # b_key)
    /\ (Sifted /\ a_key # b_key) =>
          /\ pc \in {"compare", "encrypt", "decrypt", "decode", "done"}
          /\ fault = "none"
          /\ pc = "encrypt" => LastOut(1) = <<"Interference detected!">>
          /\ pc = "decrypt" =>
                /\ LastOut(2) = <<"Interference detected!", "Alice's encrypted bits">>
                /\ encrypted = xor_bits(bit_msg, a_key).val
          /\ pc = "decode" =>
                /\ LastOut(3) = <<"Interference detected!", "Alice's encrypted bits",
                                  "Bob's decrypted bits">>
                /\ decrypted = xor_bits(encrypted, b_key).val
          /\ pc = "done" =>
                /\ LastOut(4) = <<"Interference detected!", "Alice's encrypted bits",
                                  "Bob's decrypted bits", "Bob's Received Message">>
                /\ msg = bits_to_string(decrypted)

\* a finished run whose keys differ
C7_Witness ==
    /\ pc = "done"
    /\ a_key # b_key
    /\ Contains(out, "Interference detected!")

\* C8: with an eavesdropper the keys can differ.  They differ only in an
\* eavesdropped run, and only when Eve's basis differs from the common
\* basis of Alice and Bob at a sifted position.
C8_KeysDifferOnlyUnderEve ==
    /\ Measured =>
          \A i \in 1..key_size :
              (a_basis[i] = b_basis[i] /\ a_bits[i] # b_bits[i]) =>
                  (eve /\ e_basis[i] # a_basis[i])
    /\ (Sifted /\ a_key # b_key) => eve

\* an eavesdropped run with key_size = 1 whose sifted keys differ
C8_Witness ==
    /\ Sifted
    /\ eve
    /\ key_size = 1
    /\ a_key # b_key

Ops(cs) == [j \in 1..Len(cs) |-> cs[j].op]

\* C9: an eavesdropped run builds and runs the circuit (a_bits, a_basis,
\* e_basis), and only then builds (eve_bits, e_basis, b_basis), whose run
\* gives b_bits; a run without Eve builds and runs (a_bits, a_basis,
\* b_basis) alone.  Sifting uses a_basis, b_basis and a_bits either way.
C9_TwoSimulationsInSeries ==
    /\ (pc = "eve_resend") =>
          /\ Ops(calls) = <<"bb84_circuit", "run">>
          /\ calls[2].bits = eve_bits
    /\ (Measured /\ eve) =>
          /\ Ops(calls) = <<"bb84_circuit", "run", "bb84_circuit", "run">>
          /\ calls[1].bits = a_bits /\ calls[1].a_basis = a_basis
          /\ calls[1].b_basis = e_basis
          /\ calls[2].circuit = calls[1].circuit
          /\ calls[2].bits = eve_bits
          /\ calls[3].bits = calls[2].bits /\ calls[3].a_basis = e_basis
          /\ calls[3].b_basis = b_basis
          /\ calls[4].circuit = calls[3].circuit
          /\ calls[4].bits = b_bits
    /\ (Measured /\ ~eve) =>
          /\ Ops(calls) = <<"bb84_circuit", "run">>
          /\ calls[1].bits = a_bits /\ calls[1].a_basis = a_basis
          /\ calls[1].b_basis = b_basis
          /\ calls[2].circuit = calls[1].circuit
          /\ calls[2].bits = b_bits
    /\ Sifted =>
          /\ Len(a_key) = Cardinality(Agreeing)
          /\ \A j \in 1..Len(a_key) : a_key[j] = a_bits[good_bits[j] + 1]

\* an eavesdropped run in which Eve's bits differ from Alice's
C9_Witness ==
    /\ Measured
    /\ eve
    /\ eve_bits # a_bits
    /\ Len(calls) = 4

\* C10: with non-empty keys of length K and L message bits, Bob's bit i is
\* msg[i] XOR a_key[i mod K] XOR b_key[i mod K]; the decrypted bits equal
\* the message bits exactly when the keys agree at every position below
\* min(K, L), and for a message of code points 0..255 that is exactly when
\* Bob's message equals the message passed in.
C10_DecryptionFormula ==
    (pc \in {"decode", "done"} /\ Len(a_key) > 0) =>
        LET K == Len(a_key)
            L == Len(bit_msg)
            agree == \A j \in 1..Min(K, L) : a_key[j] = b_key[j]
        IN  /\ Len(b_key) = K
            /\ Len(decrypted) = L
            /\ \A i \in 1..L :
                  decrypted[i] =
                      Xor(Xor(bit_msg[i], a_key[((i - 1) % K) + 1]),
                          b_key[((i - 1) % K) + 1])
            /\ (decrypted = bit_msg) <=> agree
            /\ (pc = "done" /\ \A i \in 1..Len(arg_msg) : arg_msg[i] <= 255) =>
                  ((msg = arg_msg) <=> agree)

\* a run that reports interference and still delivers a non-empty message
C10_Witness ==
    /\ pc = "done"
    /\ Contains(out, "Interference detected!")
    /\ arg_msg # <<>>
    /\ msg = arg_msg

====
